---- MODULE Spec2Model ----
(***************************************************************************)
(* Greedy decoding with and without a key/value cache (kv-cache.py).       *)
(*                                                                         *)
(* Two samplers generate text from the same prompt with the same step      *)
(* budget: GreedySampler re-encodes the whole accumulated text at every    *)
(* step, KVCacheSampler encodes the prompt once and afterwards feeds the   *)
(* model the selected token together with past_key_values.                 *)
(*                                                                         *)
(* Text is a sequence of one-character strings.  The tokenizer is a small  *)
(* byte-pair encoder (every character is a token, one merge rule), the     *)
(* language model is a deterministic score function of the full token     *)
(* sequence, drawn from a small family, and the cache is the sequence of   *)
(* tokens whose keys and values it holds.                                  *)
(***************************************************************************)
EXTENDS Integers, Sequences, FiniteSets, TLC

VARIABLES
    prompt,          \* the prompt given to both samplers
    max_new_tokens,  \* the step budget given to both samplers
    theta,           \* the weights of the language model
    failAt,          \* the model call that raises InferenceError (0: none)
    greedy,          \* frame of GreedySampler.__call__
    kv               \* frame of KVCacheSampler.__call__

vars == <<prompt, max_new_tokens, theta, failAt, greedy, kv>>

----------------------------------------------------------------------------
(* Bounds of the model. *)

MaxSteps == 3
MaxFail == 2

----------------------------------------------------------------------------
(* The token codec: self.tokenizer, a byte-level byte-pair encoder.        *)

\* Vocab[id + 1] is the text fragment of token id.
\* The last token is the end-of-sequence token, whose text is one unit.
Vocab == << <<"H">>, <<"e">>, <<"l">>, <<"o">>, <<"a">>, <<"b">>,
            <<"a", "b">>, <<"!">>, <<"<|endoftext|>">> >>

TokenIds == 0 .. (Len(Vocab) - 1)

\* The byte-pair merge: the adjacent pair of tokens Left, Right becomes Merged.
MergeLeft == CHOOSE t \in TokenIds : Vocab[t + 1] = <<"a">>
MergeRight == CHOOSE t \in TokenIds : Vocab[t + 1] = <<"b">>
Merged == CHOOSE t \in TokenIds : Vocab[t + 1] = <<"a", "b">>

CharId(c) == CHOOSE t \in TokenIds : Vocab[t + 1] = <<c>>

RECURSIVE ApplyMerge(_)
ApplyMerge(ids) ==
    IF Len(ids) < 2 THEN ids
    ELSE IF ids[1] = MergeLeft /\ ids[2] = MergeRight
         THEN <<Merged>> \o ApplyMerge(SubSeq(ids, 3, Len(ids)))
         ELSE <<ids[1]>> \o ApplyMerge(Tail(ids))

\* Sampler.encode: text -> token ids (no special tokens are added).
encode(text) == ApplyMerge([k \in 1 .. Len(text) |-> CharId(text[k])])

\* Sampler.decode: one token id -> text fragment.
decode(id) == Vocab[id + 1]

----------------------------------------------------------------------------
(* The language model: self.model.                                          *)

\* logits[0, -1, :] of a forward pass over the token sequence seq: the
\* score of every token id for the position after seq (entry id + 1).
Logits(th, seq) ==
    [v \in 1 .. Len(Vocab) |->
        ((v - 1) + th.a * seq[Len(seq)] + th.b * Len(seq)) % th.m]

\* torch.argmax: the index of the first maximal value.
ArgmaxHighest(probs) ==
    CHOOSE t \in TokenIds :
        /\ \A u \in TokenIds : probs[u + 1] <= probs[t + 1]
        /\ \A u \in TokenIds : probs[u + 1] = probs[t + 1] => u <= t

argmax(probs) ==
    CHOOSE t \in TokenIds :
        /\ \A u \in TokenIds : probs[u + 1] <= probs[t + 1]
        /\ \A u \in TokenIds : probs[u + 1] = probs[t + 1] => t <= u

\* past_key_values: absent (None), or the keys and values of the positions
\* processed so far, one per token.
NoCache == [present |-> FALSE, positions |-> <<>>]

\* self.model(input_ids, past_key_values): the scores for the position after
\* the cached positions followed by input_ids, and the extended cache.
Forward(th, input_ids, past) ==
    [logits |-> Logits(th, past.positions \o input_ids),
     past_key_values |-> [present |-> TRUE,
                          positions |-> past.positions \o input_ids]]

----------------------------------------------------------------------------
(* Inputs.                                                                  *)

Hello == <<"H", "e", "l", "l", "o">>

Prompts == { <<>>, <<"a">>, <<"a", "b">>, <<"b", "a">>, Hello }

\* The model that always selects the end-of-sequence token.
AlwaysEos == [a |-> 0, b |-> 0, m |-> Len(Vocab)]

\* Model weights: the score of token v after seq is
\* (v + a * last token of seq + b * length of seq) modulo m.
Thetas == [a : {0, 1}, b : {0, 1}, m : {4, Len(Vocab) - 1}] \cup {AlwaysEos}

ElapsedValues == {0, 1}
RssValues == {64}

NoResult == [returned |-> FALSE]

\* range(max_new_tokens) still has an element at position i.
InRangeInclusive(i, n) == i <= n

InRange(i, n) == i < n

\* The loop runs another iteration: nothing but the range ends it.
StopAtEos(frame, n) ==
    InRange(frame.i, n) /\ frame.id # Len(Vocab) - 1

LoopContinues(frame, n) == InRange(frame.i, n)

\* The prior cache GreedySampler gives the model: none.
SharedPast == kv.past_key_values

GreedyPast == NoCache

\* result += self.decode(id)
ReplaceText(result, fragment) == fragment

AppendText(result, fragment) == result \o fragment

\* An exception raised by the model call leaves __call__: neither sampler
\* catches it, so the call ends without a return value.
RaiseSwallowed(frame, callNo, e) ==
    [frame EXCEPT !.pc = "done", !.calls = callNo, !.err = e,
                  !.ret = [returned |-> TRUE, text |-> frame.result,
                           timings |-> frame.timings,
                           memory_usage |-> frame.memory_usage]]

Raise(frame, callNo, e) ==
    [frame EXCEPT !.pc = "failed", !.calls = callNo, !.err = e]

----------------------------------------------------------------------------
(* GreedySampler.__call__                                                   *)

GreedyFrame0 ==
    [pc |-> "call", i |-> 0, result |-> <<>>, timings |-> <<>>,
     memory_usage |-> <<>>, predictions |-> <<>>, input_ids |-> <<>>,
     next_token_probs |-> <<>>, id |-> -1,
     calls |-> 0, selected |-> <<>>, fed |-> <<>>, err |-> "",
     ret |-> NoResult]

KVFrame0 ==
    [pc |-> "call", i |-> 0, result |-> <<>>, timings |-> <<>>,
     memory_usage |-> <<>>, predictions |-> <<>>, input_ids |-> <<>>,
     past_key_values |-> NoCache,
     next_token_probs |-> <<>>, id |-> -1,
     calls |-> 0, selected |-> <<>>, fed |-> <<>>, err |-> "",
     ret |-> NoResult]

Init ==
    /\ prompt \in Prompts
    /\ max_new_tokens \in -1 .. MaxSteps
    /\ theta \in Thetas
    /\ failAt \in 0 .. MaxFail
    /\ greedy = GreedyFrame0
    /\ kv = KVFrame0

\* Lines 30-33: the locals of the call.
GreedyCall ==
    /\ greedy.pc = "call"
    /\ greedy' = [greedy EXCEPT !.pc = "loop", !.result = prompt]
    /\ UNCHANGED <<prompt, max_new_tokens, theta, failAt, kv>>

\* Lines 35-47: one iteration of the loop.
GreedyStep ==
    /\ greedy.pc = "loop"
    /\ LoopContinues(greedy, max_new_tokens)
    /\ LET input_ids == encode(greedy.result)
           callNo == greedy.calls + 1
           fed == Append(greedy.fed,
                         [input_ids |-> input_ids, past |-> GreedyPast])
       IN  IF callNo = failAt
           THEN greedy' = Raise([greedy EXCEPT !.input_ids = input_ids,
                                               !.fed = fed],
                                callNo, "InferenceError")
           ELSE IF input_ids = <<>>
           THEN greedy' = Raise([greedy EXCEPT !.input_ids = input_ids,
                                               !.fed = fed],
                                callNo, "RuntimeError")
           ELSE \E elapsed \in ElapsedValues, rss \in RssValues :
                LET next_token_probs ==
                        Forward(theta, input_ids, GreedyPast).logits
                    id == argmax(next_token_probs)
                IN  greedy' = [greedy EXCEPT
                        !.calls = callNo,
                        !.fed = fed,
                        !.input_ids = input_ids,
                        !.next_token_probs = next_token_probs,
                        !.id = id,
                        !.result = AppendText(greedy.result, decode(id)),
                        !.timings = Append(greedy.timings, elapsed),
                        !.memory_usage = Append(greedy.memory_usage, rss),
                        !.predictions =
                            Append(greedy.predictions, next_token_probs[id + 1]),
                        !.selected = Append(greedy.selected, id),
                        !.i = greedy.i + 1]
    /\ UNCHANGED <<prompt, max_new_tokens, theta, failAt, kv>>

\* Line 49: the loop is exhausted.
GreedyReturn ==
    /\ greedy.pc = "loop"
    /\ ~LoopContinues(greedy, max_new_tokens)
    /\ greedy' = [greedy EXCEPT
            !.pc = "done",
            !.ret = [returned |-> TRUE, text |-> greedy.result,
                     timings |-> greedy.timings,
                     memory_usage |-> greedy.memory_usage]]
    /\ UNCHANGED <<prompt, max_new_tokens, theta, failAt, kv>>

----------------------------------------------------------------------------
(* KVCacheSampler.__call__                                                  *)

\* Line 67: the cache kept for the next step.
StaleCache(outputs, past) == past

NextCache(outputs, past) == outputs.past_key_values

\* Line 72: the input of the next step.
WholeSequenceAgain(input_ids, id) == input_ids \o <<id>>

NextInput(input_ids, id) == <<id>>

\* Lines 53-60: the locals of the call and the initial encoding.
KVCall ==
    /\ kv.pc = "call"
    /\ kv' = [kv EXCEPT !.pc = "loop", !.result = prompt,
                        !.input_ids = encode(prompt),
                        !.past_key_values = NoCache]
    /\ UNCHANGED <<prompt, max_new_tokens, theta, failAt, greedy>>

\* Lines 62-78: one iteration of the loop.
KVStep ==
    /\ kv.pc = "loop"
    /\ LoopContinues(kv, max_new_tokens)
    /\ LET callNo == kv.calls + 1
           fed == Append(kv.fed, [input_ids |-> kv.input_ids,
                                  past |-> kv.past_key_values])
       IN  IF callNo = failAt
           THEN kv' = Raise([kv EXCEPT !.fed = fed], callNo, "InferenceError")
           ELSE IF kv.input_ids = <<>>
           THEN kv' = Raise([kv EXCEPT !.fed = fed], callNo, "RuntimeError")
           ELSE \E elapsed \in ElapsedValues, rss \in RssValues :
                LET outputs == Forward(theta, kv.input_ids, kv.past_key_values)
                    next_token_probs == outputs.logits
                    id == argmax(next_token_probs)
                IN  kv' = [kv EXCEPT
                        !.calls = callNo,
                        !.fed = fed,
                        !.past_key_values =
                            NextCache(outputs, kv.past_key_values),
                        !.next_token_probs = next_token_probs,
                        !.id = id,
                        !.input_ids = NextInput(kv.input_ids, id),
                        !.result = AppendText(kv.result, decode(id)),
                        !.timings = Append(kv.timings, elapsed),
                        !.memory_usage = Append(kv.memory_usage, rss),
                        !.predictions =
                            Append(kv.predictions, next_token_probs[id + 1]),
                        !.selected = Append(kv.selected, id),
                        !.i = kv.i + 1]
    /\ UNCHANGED <<prompt, max_new_tokens, theta, failAt, greedy>>

\* Line 80: the loop is exhausted.
KVReturn ==
    /\ kv.pc = "loop"
    /\ ~LoopContinues(kv, max_new_tokens)
    /\ kv' = [kv EXCEPT
            !.pc = "done",
            !.ret = [returned |-> TRUE, text |-> kv.result,
                     timings |-> kv.timings,
                     memory_usage |-> kv.memory_usage]]
    /\ UNCHANGED <<prompt, max_new_tokens, theta, failAt, greedy>>

----------------------------------------------------------------------------

Next ==
    \/ GreedyCall
    \/ GreedyStep
    \/ GreedyReturn
    \/ KVCall
    \/ KVStep
    \/ KVReturn

Spec == Init /\ [][Next]_vars

----------------------------------------------------------------------------
(* Properties.                                                              *)

Returned(f) == f.pc = "done"

\* The text fragments of the tokens ids, concatenated in order.
RECURSIVE DecodeAll(_)
DecodeAll(ids) ==
    IF ids = <<>> THEN <<>> ELSE decode(Head(ids)) \o DecodeAll(Tail(ids))

\* The model that always selects token id 7, "!".
AlwaysBang == [a |-> 0, b |-> 0, m |-> Len(Vocab) - 1]
Bang == CHOOSE t \in TokenIds : Vocab[t + 1] = <<"!">>

\* C1: for every prompt and step budget, when both samplers return, the text
\* returned by KVCacheSampler equals the text returned by GreedySampler.
C1_OutputEquivalence ==
    (Returned(greedy) /\ Returned(kv)) => greedy.ret.text = kv.ret.text

\* C2: in KVCacheSampler, after the step with loop index i (kv.i - 1 once the
\* step is complete) the cache holds as many positions as the prompt has
\* tokens, plus i.
C2_CacheLength ==
    kv.i >= 1 =>
        /\ kv.past_key_values.present
        /\ Len(kv.past_key_values.positions)
             = Len(encode(prompt)) + (kv.i - 1)

C2_Witness ==
    /\ kv.i = 3
    /\ Len(encode(prompt)) = 5
    /\ Len(kv.past_key_values.positions) = 7

TraceLengthIs(f, n) ==
    Returned(f) => Len(f.ret.timings) = n /\ Len(f.ret.memory_usage) = n

\* C3: a sampler that returns with a step budget N >= 0 returns N timings and
\* N memory samples, and when both return their traces have equal length.
C3_TraceLength ==
    /\ max_new_tokens >= 0 =>
          TraceLengthIs(greedy, max_new_tokens) /\ TraceLengthIs(kv, max_new_tokens)
    /\ (Returned(greedy) /\ Returned(kv)) =>
          /\ Len(greedy.ret.timings) = Len(kv.ret.timings)
          /\ Len(greedy.ret.memory_usage) = Len(kv.ret.memory_usage)

C3_Witness ==
    /\ Returned(greedy) /\ Returned(kv)
    /\ max_new_tokens = MaxSteps
    /\ Len(greedy.ret.timings) = MaxSteps
    /\ Len(kv.ret.memory_usage) = MaxSteps

NoStepRun(f) ==
    /\ f.pc # "failed"
    /\ f.calls = 0
    /\ f.i = 0
    /\ f.pc = "loop" => ~InRange(f.i, max_new_tokens)
    /\ Returned(f) =>
          /\ f.ret.text = prompt
          /\ f.ret.timings = <<>>
          /\ f.ret.memory_usage = <<>>

\* C4: with a step budget <= 0 neither sampler fails, no step runs, and a
\* sampler that has returned has returned the prompt unchanged with an empty
\* trace.
C4_NonPositiveBudget ==
    max_new_tokens <= 0 => NoStepRun(greedy) /\ NoStepRun(kv)

C4_Witness ==
    /\ max_new_tokens < 0
    /\ prompt = Hello
    /\ Returned(greedy) /\ Returned(kv)
    /\ greedy.ret.text = Hello /\ kv.ret.text = Hello

FailedAtCall(f, k) ==
    f.calls >= k =>
        /\ f.pc = "failed"
        /\ f.err = "InferenceError"
        /\ f.calls = k
        /\ f.i = k - 1
        /\ f.ret = NoResult
        /\ Len(f.timings) = k - 1
        /\ Len(f.memory_usage) = k - 1
        /\ Len(f.predictions) = k - 1
        /\ Len(f.selected) = k - 1

\* C5: once the model call numbered failAt has been made, the run has failed
\* at the step of that number with InferenceError, nothing was returned, no
\* telemetry entry was recorded for the failed step, and no further model
\* call (retry, or fallback) follows.
C5_InferenceFailure ==
    failAt >= 1 => FailedAtCall(greedy, failAt) /\ FailedAtCall(kv, failAt)

C5_Witness ==
    /\ failAt = 2
    /\ greedy.pc = "failed" /\ greedy.err = "InferenceError"
    /\ kv.pc = "failed" /\ kv.err = "InferenceError"
    /\ Len(greedy.timings) = 1 /\ Len(kv.timings) = 1

EmptyPromptRejected(f) ==
    /\ f.calls = 0
    /\ f.pc # "done"
    /\ f.pc = "failed" => f.err = "EncodingError"

\* C6: a prompt that encodes to zero tokens is never passed to the model and
\* the run ends with EncodingError and no result, for every step budget.
C6_EmptyPromptIsEncodingError ==
    encode(prompt) = <<>> =>
        EmptyPromptRejected(greedy) /\ EmptyPromptRejected(kv)

LowestMaximum(f) ==
    f.id # -1 =>
        /\ f.id \in TokenIds
        /\ \A u \in TokenIds :
              /\ f.next_token_probs[u + 1] <= f.next_token_probs[f.id + 1]
              /\ f.next_token_probs[u + 1] = f.next_token_probs[f.id + 1]
                    => f.id <= u
        /\ f.selected[Len(f.selected)] = f.id
        /\ f.predictions[Len(f.predictions)] = f.next_token_probs[f.id + 1]

\* C7: the token selected at a step has the maximum score of that step's
\* distribution and is the lowest token id with that score; two steps with
\* the same distribution select the same token.
C7_ArgmaxLowestId ==
    /\ LowestMaximum(greedy)
    /\ LowestMaximum(kv)
    /\ (greedy.id # -1 /\ kv.id # -1
          /\ greedy.next_token_probs = kv.next_token_probs)
        => greedy.id = kv.id

TiedMaximum(f) ==
    /\ f.id # -1
    /\ \E u \in TokenIds :
          u # f.id /\ f.next_token_probs[u + 1] = f.next_token_probs[f.id + 1]

C7_Witness == TiedMaximum(greedy) /\ TiedMaximum(kv)

TextIsPromptPlusSelected(f) ==
    /\ f.pc # "call" => f.result = prompt \o DecodeAll(f.selected)
    /\ Returned(f) => f.ret.text = prompt \o DecodeAll(f.selected)

HelloScenario(f) ==
    (theta = AlwaysBang /\ prompt = Hello /\ max_new_tokens = 3 /\ Returned(f))
        => /\ f.selected = <<Bang, Bang, Bang>>
           /\ f.ret.text = Hello \o <<"!", "!", "!">>
           /\ Len(f.ret.timings) = 3
           /\ Len(f.ret.memory_usage) = 3

\* C8: the text of a run is always the prompt followed by the fragments of
\* the tokens selected so far, in order, and so is the text returned; with
\* the model that always selects "!", prompt Hello and three steps, both
\* samplers return Hello!!! and three telemetry entries.
C8_TextIsPromptPlusFragments ==
    /\ TextIsPromptPlusSelected(greedy) /\ TextIsPromptPlusSelected(kv)
    /\ HelloScenario(greedy) /\ HelloScenario(kv)

C8_Witness ==
    /\ theta = AlwaysBang /\ prompt = Hello /\ max_new_tokens = 3
    /\ Returned(greedy) /\ Returned(kv)
    /\ greedy.ret.text = <<"H", "e", "l", "l", "o", "!", "!", "!">>
    /\ kv.ret.text = <<"H", "e", "l", "l", "o", "!", "!", "!">>

ReturnsFullTrace(f) ==
    Returned(f) =>
        \A k \in 1 .. f.i :
            /\ Len(f.ret.timings) >= k /\ f.ret.timings[k] = f.timings[k]
            /\ Len(f.ret.memory_usage) >= k
            /\ f.ret.memory_usage[k] = f.memory_usage[k]
            /\ "predictions" \in DOMAIN f.ret
            /\ Len(f.ret.predictions) >= k
            /\ f.ret.predictions[k] = f.predictions[k]

\* C9: the value returned to the caller carries, for every step in step
\* order, the elapsed time, the resident memory and the score of the selected
\* token.
C9_ReturnedTraceHasScores ==
    ReturnsFullTrace(greedy) /\ ReturnsFullTrace(kv)

\* C10 as stated: every step of KVCacheSampler grows the cache by exactly one
\* position, for every prompt length.
C10_GrowsByOneEveryStep ==
    [][kv'.i = kv.i + 1 =>
          Len(kv'.past_key_values.positions)
            = Len(kv.past_key_values.positions) + 1]_vars

\* C10 amended: the first step takes the cache from absent to one position
\* per prompt token, every later step grows it by exactly one position, and
\* no transition shrinks it, rewrites a held position or makes it absent.
C10_GrowsByOneAfterFirstStep ==
    [][/\ kv'.i = kv.i + 1 =>
            IF kv.i = 0
            THEN /\ ~kv.past_key_values.present
                 /\ kv'.past_key_values.present
                 /\ Len(kv'.past_key_values.positions) = Len(encode(prompt))
            ELSE Len(kv'.past_key_values.positions)
                   = Len(kv.past_key_values.positions) + 1
       /\ kv.past_key_values.present => kv'.past_key_values.present
       /\ Len(kv'.past_key_values.positions)
            >= Len(kv.past_key_values.positions)
       /\ SubSeq(kv'.past_key_values.positions, 1,
                 Len(kv.past_key_values.positions))
            = kv.past_key_values.positions]_vars

C10_Witness ==
    /\ Returned(kv)
    /\ kv.i = MaxSteps
    /\ Len(encode(prompt)) = 2
    /\ Len(kv.past_key_values.positions) = MaxSteps + 1

----------------------------------------------------------------------------
(* Inputs of the model calls, cost, and runs taken alone.                   *)

Eos == CHOOSE t \in TokenIds : Vocab[t + 1] = <<"<|endoftext|>">>

\* The tokens given to the model by the calls of fed, in order.
RECURSIVE FedTokens(_)
FedTokens(fed) ==
    IF fed = <<>> THEN <<>> ELSE Head(fed).input_ids \o FedTokens(Tail(fed))

\* The cost of call k: the number of input tokens it is given.
Cost(f, k) == Len(f.fed[k].input_ids)

TotalCost(f) == Len(FedTokens(f.fed))

\* The cache returned by call k of KVCacheSampler.
ReturnedCache(k) ==
    Forward(theta, kv.fed[k].input_ids, kv.fed[k].past).past_key_values

\* C11: the first model call of KVCacheSampler receives the whole encoded
\* prompt and no cache; every later call k receives exactly the token
\* selected at step k-1 and exactly the cache returned by call k-1.
C11_CachedCallInputs ==
    \A k \in 1 .. Len(kv.fed) :
        IF k = 1
        THEN /\ kv.fed[k].input_ids = encode(prompt)
             /\ kv.fed[k].past = NoCache
        ELSE /\ kv.fed[k].input_ids = <<kv.selected[k - 1]>>
             /\ kv.fed[k].past = ReturnedCache(k - 1)

C11_Witness ==
    /\ Len(kv.fed) = 3
    /\ kv.fed[1].input_ids = encode(Hello)
    /\ Len(kv.fed[3].input_ids) = 1
    /\ Len(kv.fed[3].past.positions) = 6

\* C12: the token sequence of the current output grows by exactly the newly
\* selected token at every step: in GreedySampler the encoding used at step
\* k+1 is the encoding used at step k followed by the token selected at step
\* k, and in KVCacheSampler so is the cache followed by the pending input.
C12_SequenceGrowsBySelectedToken ==
    /\ \A k \in 2 .. Len(greedy.fed) :
          greedy.fed[k].input_ids
            = greedy.fed[k - 1].input_ids \o <<greedy.selected[k - 1]>>
    /\ \A k \in 2 .. Len(kv.fed) :
          kv.fed[k].past.positions \o kv.fed[k].input_ids
            = (kv.fed[k - 1].past.positions \o kv.fed[k - 1].input_ids)
                \o <<kv.selected[k - 1]>>

NoCallFails == failAt = 0 /\ encode(prompt) # <<>>

\* Until it returns, the run is at the call or in the loop, where a step or
\* the return can always be taken, and the loop goes on while i < n.
RunsEveryStep(f, n) ==
    /\ f.pc \in {"call", "loop", "done"}
    /\ f.calls = f.i
    /\ Len(f.selected) = f.i
    /\ f.i <= n
    /\ (f.pc = "loop" /\ f.i < n) => LoopContinues(f, n)
    /\ Returned(f) => f.i = n /\ f.calls = n

\* C13: with a step budget N >= 0 and no failing call, neither run fails or
\* stops before it returns, and a run that has returned has performed exactly
\* N steps and N model calls, whatever tokens were selected, the
\* end-of-sequence token included.
C13_ExactlyNSteps ==
    (NoCallFails /\ max_new_tokens >= 0) =>
        /\ RunsEveryStep(greedy, max_new_tokens)
        /\ RunsEveryStep(kv, max_new_tokens)

C13_Witness ==
    /\ theta = AlwaysEos /\ max_new_tokens = MaxSteps
    /\ Returned(greedy) /\ Returned(kv)
    /\ greedy.calls = MaxSteps /\ kv.calls = MaxSteps
    /\ \A k \in 1 .. MaxSteps :
          greedy.selected[k] = Eos /\ kv.selected[k] = Eos

RECURSIVE GreedyAloneText(_)
GreedyAloneText(k) ==
    IF k <= 0 THEN prompt
    ELSE LET text == GreedyAloneText(k - 1)
         IN  text \o decode(argmax(Logits(theta, encode(text))))

\* The tokens KVCacheSampler has processed or selected after k steps when it
\* runs alone.
RECURSIVE KVAloneTokens(_)
KVAloneTokens(k) ==
    IF k <= 0 THEN encode(prompt)
    ELSE LET seq == KVAloneTokens(k - 1)
         IN  Append(seq, argmax(Logits(theta, seq)))

KVAloneText(k) ==
    IF k <= 0 THEN prompt
    ELSE prompt \o DecodeAll(SubSeq(KVAloneTokens(k),
                                    Len(encode(prompt)) + 1,
                                    Len(encode(prompt)) + k))

\* A run taken alone fails: some step makes a model call that raises.
AloneFails ==
    /\ max_new_tokens >= 1
    /\ failAt \in 1 .. max_new_tokens \/ encode(prompt) = <<>>

AsAlone(f, text) ==
    /\ f.pc = "failed" => AloneFails
    /\ Returned(f) =>
          /\ ~AloneFails
          /\ f.ret.text = text
          /\ Len(f.ret.timings) = IF max_new_tokens > 0 THEN max_new_tokens ELSE 0
          /\ Len(f.ret.memory_usage) = Len(f.ret.timings)

\* C15: under every interleaving, a step of one run leaves the frame of the
\* other run, the cache included, unchanged; the cache every call of
\* KVCacheSampler is given is the one its own previous call returned; and
\* each run fails or returns as it does alone, with the same text and the
\* same number of trace entries.
C15_RunsAreIndependent ==
    [][/\ greedy' # greedy => kv' = kv
       /\ kv' # kv => greedy' = greedy
       /\ \A k \in 1 .. Len(greedy'.fed) : greedy'.fed[k].past = NoCache
       /\ \A k \in 2 .. Len(kv'.fed) :
             kv'.fed[k].past.positions
               = kv'.fed[k - 1].past.positions \o kv'.fed[k - 1].input_ids
       /\ AsAlone(greedy', GreedyAloneText(max_new_tokens))
       /\ AsAlone(kv', KVAloneText(max_new_tokens))]_vars

C15_Witness ==
    /\ max_new_tokens = 2
    /\ Returned(greedy)
    /\ greedy.ret.text = GreedyAloneText(2)
    /\ kv.pc = "loop" /\ kv.i = 1
    /\ kv.past_key_values.present

\* C16: in KVCacheSampler, from the initial encoding on, the tokens held in
\* the cache followed by the pending input are the prompt's tokens followed
\* by the tokens selected so far; the inputs of the completed calls, in
\* order, are exactly the tokens held in the cache; and when the run returns
\* after N >= 1 steps the token selected last is pending and was never fed.
C16_EveryTokenFedOnce ==
    kv.pc # "call" =>
        /\ kv.past_key_values.positions \o kv.input_ids
             = encode(prompt) \o kv.selected
        /\ FedTokens(SubSeq(kv.fed, 1, kv.i)) = kv.past_key_values.positions
        /\ (Returned(kv) /\ kv.i >= 1) =>
              /\ kv.input_ids = <<kv.selected[kv.i]>>
              /\ kv.past_key_values.positions
                   = encode(prompt) \o SubSeq(kv.selected, 1, kv.i - 1)
              /\ FedTokens(kv.fed)
                   = encode(prompt) \o SubSeq(kv.selected, 1, kv.i - 1)

C16_Witness ==
    /\ Returned(kv)
    /\ kv.i = 3
    /\ prompt = <<"a", "b">>
    /\ Len(kv.past_key_values.positions) = 3
    /\ Len(kv.fed) = 3

====
